---- MODULE Spec2Model ----
(***************************************************************************)
(* Model of the sub-test aware notifiers of lisa:                          *)
(*   lisa/notifiers/subtest_aware_notifier.py  (SubtestAwareNotifier)      *)
(*   lisa/notifiers/subtest_result_collector.py (SubTestResultCollector)   *)
(*   lisa/notifiers/junit.py                   (JUnit)                     *)
(* One notifier object receives a stream of messages; every handler is one *)
(* action.  A Python exception leaves the assignments made before the      *)
(* raise in place and skips the rest of the handler.                       *)
(***************************************************************************)
EXTENDS Integers, Sequences, FiniteSets, TLC

(* ------------------------------ bounds --------------------------------- *)

\* Significand width of the model's floating point numbers.  Python floats
\* have 53 bits; the model keeps round-to-nearest-even and shortens the
\* significand so that rounding happens on small numbers.
MantissaBits == 3

\* Values of message.elapsed the producers send (seconds since run start).
Times == {0, 3, 14}

Ids == {1}
Suites == {"S1"}
CaseName == "C"
SubNames == {"a", "b"}

(* --------------------------- message values ---------------------------- *)

None == "<None>"

QUEUED == "QUEUED"
RUNNING == "RUNNING"
FAILED == "FAILED"
PASSED == "PASSED"
SKIPPED == "SKIPPED"
ATTEMPTED == "ATTEMPTED"

TestStatus == {QUEUED, RUNNING, FAILED, PASSED, SKIPPED, ATTEMPTED}

\* The statuses the producers give a sub-test.
SubTestStatus == {RUNNING, FAILED, PASSED, SKIPPED, ATTEMPTED}

INITIALIZING == "INITIALIZING"
RUN_RUNNING == "RUNNING"
SUCCESS == "SUCCESS"
RUN_FAILED == "FAILED"

TestRunStatus == {INITIALIZING, RUN_RUNNING, SUCCESS, RUN_FAILED}

\* TestResultMessageBase.is_completed: the status is terminal.
is_completed(status) == status \in {FAILED, PASSED, SKIPPED, ATTEMPTED}

TestRunMessage(status, elapsed) ==
    [type |-> "TestRunMessage", status |-> status, runbook_name |-> "run",
     elapsed |-> elapsed]

TestResultMessage(id, suite, status, elapsed) ==
    [type |-> "TestResultMessage", id_ |-> id, suite_full_name |-> suite,
     name |-> CaseName, status |-> status, elapsed |-> elapsed,
     message |-> "msg", stacktrace |-> "trace"]

\* SubTestMessage(): the fields a fresh message has before they are set.
SubTestMessage(id, name, status, elapsed) ==
    [type |-> "SubTestMessage", id_ |-> id, name |-> name, status |-> status,
     elapsed |-> elapsed, message |-> "", stacktrace |-> None]

NoMessage == [type |-> "none"]

(* --------------------------- float arithmetic -------------------------- *)

RECURSIVE Pow2(_)
Pow2(e) == IF e = 0 THEN 1 ELSE 2 * Pow2(e - 1)

Abs(x) == IF x < 0 THEN 0 - x ELSE x

RECURSIVE Exponent(_, _)
Exponent(a, e) ==
    IF a \div Pow2(e) < Pow2(MantissaBits) THEN e ELSE Exponent(a, e + 1)

\* Round to the nearest number with MantissaBits significant bits, ties to
\* the even significand.
Fl(x) ==
    LET a == Abs(x)
        e == Exponent(a, 0)
        m == a \div Pow2(e)
        r == a % Pow2(e)
        half == IF e = 0 THEN 0 ELSE Pow2(e - 1)
        up == e > 0 /\ (r > half \/ (r = half /\ m % 2 = 1))
        m2 == IF up THEN m + 1 ELSE m
    IN  IF x < 0 THEN 0 - (m2 * Pow2(e)) ELSE m2 * Pow2(e)

FSub(a, b) == Fl(a - b)
FAdd(a, b) == Fl(a + b)

\* f"{a}.{b}"
FullName(a, b) == a \o "." \o b

\* f"{elapsed:.3f}" of a whole number of seconds
get_elapsed_str(elapsed) == ToString(elapsed) \o ".000"

(* ------------------------------- state --------------------------------- *)

VARIABLES
    notifier,            \* type_name() of the notifier object that runs
    testcases_info,      \* SubtestAwareNotifier._testcases_info
    test_cases,          \* SubTestResultCollector._test_cases
    testsuites_xml_info, \* JUnit._testsuites_xml_info
    testcases_xml_info,  \* JUnit._testcases_xml_info
    testsuites,          \* JUnit._testsuites.attrib (the root element)
    emitted,             \* the calls of _add_test_case_result and
                         \* _add_subtest_case_result the last handler made
    hooks,               \* the calls of _test_run_started, _test_run_completed
                         \* and _init_test_case_info the last handler made
    sub_elapsed_sum,     \* per id, the sum of elapsed over the calls of
                         \* _add_subtest_case_result so far
    completed,           \* the ids a call of _add_test_case_result was made for
    before,              \* _testcases_info, _test_cases and completed as the
                         \* last handler found them
    case_status,         \* per id, the status of the last completing
                         \* TestResultMessage received
    wellformed,          \* per id, how far its messages follow the protocol
    raised,              \* the exception the last handler propagated
    message,             \* the message the last handler received
    clock,               \* elapsed of the last message sent
    solo,                \* per id, a notifier object of its own that
                         \* receives the messages of that id only
    report_file,         \* JUnit._report_file
    finalized            \* how the call of finalize ended, if it was made

vars == <<notifier, testcases_info, test_cases, testsuites_xml_info,
          testcases_xml_info, testsuites, emitted, hooks, sub_elapsed_sum,
          completed, before, case_status, wellformed, raised, message, clock, solo,
          report_file, finalized>>

JUNIT == "junit"
COLLECTOR == "subtestresultcollector"

EmptyDict == [k \in {} |-> None]

\* dict[key] = value
DictSet(d, key, value) == (key :> value) @@ d

NotImplementedError == "NotImplementedError"
KeyError == "KeyError"
NotSameSubTest == "LisaException: Completed sub-test is not the same as the active sub-test."
SuiteNotStarted == "LisaException: Test suite not started."
CaseNotStarted == "LisaException: Test case not started."

\* The notifier's fields, as one handler reads and writes them.
Self ==
    [testcases_info |-> testcases_info, test_cases |-> test_cases,
     testsuites_xml_info |-> testsuites_xml_info,
     testcases_xml_info |-> testcases_xml_info, testsuites |-> testsuites,
     emitted |-> <<>>, hooks |-> <<>>, raised |-> None]

Raise(self, exception) == [self EXCEPT !.raised = exception]

\* class TestCaseRuntimeInfo: __init__
TestCaseRuntimeInfo ==
    [suite_full_name |-> "", name |-> "", active_subtest_name |-> None,
     last_seen_timestamp |-> 0, subtest_total_elapsed |-> 0]

(* ----------------------- SubTestResultCollector ------------------------ *)

Collector_init_test_case_info(self, msg) ==
    LET case_full_name == FullName(msg.suite_full_name, msg.name)
    IN  IF case_full_name \notin DOMAIN self.test_cases
        THEN [self EXCEPT !.test_cases = DictSet(@, case_full_name, EmptyDict)]
        ELSE self

Collector_add_test_case_result(self, msg, suite_full_name, class_name, elapsed) ==
    self

\* Mutant: a label once stored for a sub-test is kept.
Collector_add_subtest_case_result_keeps_first(self, msg, suite_full_name, testcase_full_name, elapsed) ==
    IF testcase_full_name \notin DOMAIN self.test_cases
    THEN Raise(self, CaseNotStarted)
    ELSE LET testcase_info == self.test_cases[testcase_full_name]
             label == IF msg.status = PASSED THEN "PASSED"
                      ELSE IF msg.status = FAILED THEN "FAILED"
                      ELSE IF msg.status = SKIPPED \/ msg.status = ATTEMPTED
                           THEN "SKIPPED"
                      ELSE None
         IN  IF label = None \/ msg.name \in DOMAIN testcase_info THEN self
             ELSE [self EXCEPT !.test_cases[testcase_full_name] =
                                   DictSet(testcase_info, msg.name, label)]

Collector_add_subtest_case_result(self, msg, suite_full_name, testcase_full_name, elapsed) ==
    IF testcase_full_name \notin DOMAIN self.test_cases
    THEN Raise(self, CaseNotStarted)
    ELSE LET testcase_info == self.test_cases[testcase_full_name]
             label == IF msg.status = PASSED THEN "PASSED"
                      ELSE IF msg.status = FAILED THEN "FAILED"
                      ELSE IF msg.status = SKIPPED \/ msg.status = ATTEMPTED
                           THEN "SKIPPED"
                      ELSE None
         IN  IF label = None THEN self
             ELSE [self EXCEPT !.test_cases[testcase_full_name] =
                                   DictSet(testcase_info, msg.name, label)]

(* -------------------------------- JUnit -------------------------------- *)

\* class _TestSuiteXmlInfo with the attributes of its xml element
TestSuiteXmlInfo(name) ==
    [name |-> name, test_count |-> 0, failed_count |-> 0,
     tests |-> None, failures |-> None, errors |-> None]

\* class _TestCaseXmlInfo: the testcase element, its attributes and children
TestCaseXmlInfo(suite, name) ==
    [suite |-> suite, name |-> name, classname |-> None, time |-> None,
     children |-> <<>>]

JUnit_create_or_get_testsuite_info(self, msg) ==
    IF msg.suite_full_name \notin DOMAIN self.testsuites_xml_info
    THEN [self EXCEPT !.testsuites_xml_info =
              DictSet(@, msg.suite_full_name, TestSuiteXmlInfo(msg.suite_full_name))]
    ELSE self

\* Defined by JUnit and called by nothing.
JUnit_set_test_case_info(self, msg) ==
    LET case_full_name == FullName(msg.suite_full_name, msg.name)
        s1 == JUnit_create_or_get_testsuite_info(self, msg)
    IN  IF case_full_name \notin DOMAIN self.testcases_xml_info
        THEN [s1 EXCEPT !.testcases_xml_info =
                 DictSet(@, case_full_name,
                         TestCaseXmlInfo(msg.suite_full_name, msg.name))]
        ELSE self

\* JUnit does not override _init_test_case_info: the base method runs.
JUnit_init_test_case_info(self, msg) == Raise(self, NotImplementedError)

JUnit_test_run_started(self, msg) ==
    [self EXCEPT !.testsuites.name = msg.runbook_name]

RECURSIVE SumOver(_, _, _)
SumOver(d, keys, field) ==
    IF keys = {} THEN 0
    ELSE LET k == CHOOSE x \in keys : TRUE
         IN  d[k][field] + SumOver(d, keys \ {k}, field)

\* Mutant: the root element gets the counts of one suite, not the sums.
JUnit_test_run_completed_one_suite(self, msg) ==
    LET info == self.testsuites_xml_info
        one == IF DOMAIN info = {} THEN {} ELSE {CHOOSE s \in DOMAIN info : TRUE}
        total_tests == SumOver(info, one, "test_count")
        total_failures == SumOver(info, one, "failed_count")
    IN  [self EXCEPT
            !.testsuites_xml_info =
                [s \in DOMAIN info |->
                    [info[s] EXCEPT !.tests = ToString(info[s].test_count),
                                    !.failures = ToString(info[s].failed_count),
                                    !.errors = "0"]],
            !.testsuites.time = get_elapsed_str(msg.elapsed),
            !.testsuites.tests = ToString(total_tests),
            !.testsuites.failures = ToString(total_failures),
            !.testsuites.errors = "0"]

JUnit_test_run_completed(self, msg) ==
    LET info == self.testsuites_xml_info
        total_tests == SumOver(info, DOMAIN info, "test_count")
        total_failures == SumOver(info, DOMAIN info, "failed_count")
    IN  [self EXCEPT
            !.testsuites_xml_info =
                [s \in DOMAIN info |->
                    [info[s] EXCEPT !.tests = ToString(info[s].test_count),
                                    !.failures = ToString(info[s].failed_count),
                                    !.errors = "0"]],
            !.testsuites.time = get_elapsed_str(msg.elapsed),
            !.testsuites.tests = ToString(total_tests),
            !.testsuites.failures = ToString(total_failures),
            !.testsuites.errors = "0"]

add_failed_or_skipped(msg) ==
    IF msg.status = FAILED
    THEN <<[tag |-> "failure", message |-> msg.message, text |-> msg.stacktrace]>>
    ELSE IF msg.status = SKIPPED \/ msg.status = ATTEMPTED
    THEN <<[tag |-> "skipped", message |-> msg.message]>>
    ELSE <<>>

JUnit_add_test_case_result(self, msg, suite_full_name, class_name, elapsed) ==
    LET case_full_name == FullName(msg.suite_full_name, msg.name)
    IN  IF suite_full_name \notin DOMAIN self.testsuites_xml_info
        THEN Raise(self, SuiteNotStarted)
        ELSE IF case_full_name \notin DOMAIN self.testcases_xml_info
        THEN Raise(self, CaseNotStarted)
        ELSE [self EXCEPT
                !.testcases_xml_info[case_full_name] =
                    [@ EXCEPT !.name = msg.name, !.classname = class_name,
                              !.time = get_elapsed_str(elapsed),
                              !.children = @ \o add_failed_or_skipped(msg)],
                !.testsuites_xml_info[suite_full_name].test_count = @ + 1]

\* Mutant: a sub-test result counts as a test of its suite.
JUnit_add_subtest_case_result_counted(self, msg, suite_full_name, testcase_full_name, elapsed) ==
    IF testcase_full_name \notin DOMAIN self.testcases_xml_info
    THEN Raise(self, CaseNotStarted)
    ELSE [self EXCEPT
            !.testcases_xml_info[testcase_full_name].children =
                Append(@, [tag |-> "subtestcase", name |-> msg.name,
                           testcase |-> testcase_full_name,
                           time |-> get_elapsed_str(elapsed),
                           children |-> add_failed_or_skipped(msg)]),
            !.testsuites_xml_info[suite_full_name].test_count = @ + 1]

JUnit_add_subtest_case_result(self, msg, suite_full_name, testcase_full_name, elapsed) ==
    IF testcase_full_name \notin DOMAIN self.testcases_xml_info
    THEN Raise(self, CaseNotStarted)
    ELSE [self EXCEPT
            !.testcases_xml_info[testcase_full_name].children =
                Append(@, [tag |-> "subtestcase", name |-> msg.name,
                           testcase |-> testcase_full_name,
                           time |-> get_elapsed_str(elapsed),
                           children |-> add_failed_or_skipped(msg)])]

\* open(self._report_path, "wb"): an open file, empty.
open == [closed |-> FALSE, close_calls |-> 0, content |-> "empty"]

OSError == "OSError"
Returned == "returned"

\* The call of _write_results that fails, if one does.
WriteFailures == {None, "truncate", "seek", "write", "flush"}

\* self._report_file.close()
close(file) == [file EXCEPT !.closed = TRUE, !.close_calls = @ + 1]

\* failure names the call that raises OSError; the calls before it are made.
JUnit_write_results(file, failure) ==
    IF failure \in {"truncate", "seek"}
    THEN [report_file |-> file, raised |-> OSError]
    ELSE IF failure = "write"
    THEN [report_file |-> [file EXCEPT !.content = "partial"], raised |-> OSError]
    ELSE IF failure = "flush"
    THEN [report_file |-> [file EXCEPT !.content = "unflushed"], raised |-> OSError]
    ELSE [report_file |-> [file EXCEPT !.content = "document"], raised |-> None]

\* Mutant: the file is closed only when the results were written.
JUnit_finalize_closes_on_success(file, failure) ==
    LET written == JUnit_write_results(file, failure)
    IN  IF written.raised # None THEN written
        ELSE [report_file |-> close(written.report_file), raised |-> Returned]

\* try: _write_results() finally: _report_file.close()
JUnit_finalize(file, failure) ==
    LET written == JUnit_write_results(file, failure)
        closed == close(written.report_file)
    IN  IF written.raised # None
        THEN [report_file |-> closed, raised |-> written.raised]
        ELSE [report_file |-> closed, raised |-> Returned]

\* SubTestResultCollector.finalize writes to the log only.
Collector_finalize(file, failure) ==
    [report_file |-> file, raised |-> Returned]

(* ------------------------ SubtestAwareNotifier ------------------------- *)

\* A hook is called.
Called(self, hook) == [self EXCEPT !.hooks = Append(@, hook)]

\* The hooks a notifier class implements, by the class of the object.
test_run_started(self, msg) ==
    LET called == Called(self, "_test_run_started")
    IN  IF notifier = JUNIT THEN JUnit_test_run_started(called, msg) ELSE called

test_run_completed(self, msg) ==
    LET called == Called(self, "_test_run_completed")
    IN  IF notifier = JUNIT THEN JUnit_test_run_completed(called, msg) ELSE called

init_test_case_info(self, msg) ==
    LET called == Called(self, "_init_test_case_info")
    IN  IF notifier = JUNIT THEN JUnit_init_test_case_info(called, msg)
        ELSE Collector_init_test_case_info(called, msg)

\* Whether the sink holds the test case a result is for, when it is handed
\* the result.
Started(self, suite_full_name, case_full_name) ==
    IF notifier = JUNIT
    THEN /\ suite_full_name \in DOMAIN self.testsuites_xml_info
         /\ case_full_name \in DOMAIN self.testcases_xml_info
    ELSE case_full_name \in DOMAIN self.test_cases

\* What the sink is handed with a test case result.
CaseResult(self, msg, suite_full_name, class_name, elapsed) ==
    [kind |-> "case", message |-> msg, suite_full_name |-> suite_full_name,
     owner |-> class_name, elapsed |-> elapsed,
     started |-> Started(self, suite_full_name,
                         FullName(msg.suite_full_name, msg.name))]

\* What the sink is handed with a sub-test result.
SubResult(self, msg, suite_full_name, testcase_full_name, elapsed) ==
    [kind |-> "subtest", message |-> msg, suite_full_name |-> suite_full_name,
     owner |-> testcase_full_name, elapsed |-> elapsed,
     started |-> Started(self, suite_full_name, testcase_full_name)]

add_test_case_result(self, msg, suite_full_name, class_name, elapsed) ==
    LET called == [self EXCEPT !.emitted =
                      Append(@, CaseResult(self, msg, suite_full_name, class_name, elapsed))]
    IN  IF notifier = JUNIT
        THEN JUnit_add_test_case_result(called, msg, suite_full_name, class_name, elapsed)
        ELSE Collector_add_test_case_result(called, msg, suite_full_name, class_name, elapsed)

add_subtest_case_result(self, msg, suite_full_name, testcase_full_name, elapsed) ==
    LET called == [self EXCEPT !.emitted =
                      Append(@, SubResult(self, msg, suite_full_name, testcase_full_name, elapsed))]
    IN  IF notifier = JUNIT
        THEN JUnit_add_subtest_case_result(called, msg, suite_full_name, testcase_full_name, elapsed)
        ELSE Collector_add_subtest_case_result(called, msg, suite_full_name, testcase_full_name, elapsed)

\* Mutant: the dictionary of runtime infos is replaced by one that holds the
\* new entry only.
set_test_case_runtime_info_alone(self, msg) ==
    LET testcase_info ==
            [TestCaseRuntimeInfo EXCEPT !.suite_full_name = msg.suite_full_name,
                                        !.name = msg.name,
                                        !.last_seen_timestamp = msg.elapsed]
    IN  [self EXCEPT !.testcases_info = DictSet(EmptyDict, msg.id_, testcase_info)]

set_test_case_runtime_info(self, msg) ==
    LET testcase_info ==
            [TestCaseRuntimeInfo EXCEPT !.suite_full_name = msg.suite_full_name,
                                        !.name = msg.name,
                                        !.last_seen_timestamp = msg.elapsed]
    IN  [self EXCEPT !.testcases_info = DictSet(@, msg.id_, testcase_info)]

\* Mutant: the name of the completed sub-test is not compared with the
\* active one.
sub_test_case_completed_any_name(self, msg) ==
    IF msg.id_ \notin DOMAIN self.testcases_info THEN Raise(self, KeyError)
    ELSE
    LET testcase_info == self.testcases_info[msg.id_]
        elapsed == FSub(msg.elapsed, testcase_info.last_seen_timestamp)
        s1 == [self EXCEPT
                 !.testcases_info[msg.id_].active_subtest_name = None,
                 !.testcases_info[msg.id_].subtest_total_elapsed = FAdd(@, elapsed)]
        s2 == add_subtest_case_result(s1, msg, testcase_info.suite_full_name,
                  FullName(testcase_info.suite_full_name, testcase_info.name),
                  elapsed)
    IN  IF s2.raised # None THEN s2
        ELSE [s2 EXCEPT !.testcases_info[msg.id_].last_seen_timestamp = msg.elapsed]

\* Mutant: a completion with no sub-test active is refused.
sub_test_case_completed_needs_active(self, msg) ==
    IF msg.id_ \notin DOMAIN self.testcases_info THEN Raise(self, KeyError)
    ELSE
    LET testcase_info == self.testcases_info[msg.id_]
        mismatch == \/ testcase_info.active_subtest_name = None
                    \/ testcase_info.active_subtest_name # msg.name
        elapsed == FSub(msg.elapsed, testcase_info.last_seen_timestamp)
        s1 == [self EXCEPT
                 !.testcases_info[msg.id_].active_subtest_name = None,
                 !.testcases_info[msg.id_].subtest_total_elapsed = FAdd(@, elapsed)]
        s2 == add_subtest_case_result(s1, msg, testcase_info.suite_full_name,
                  FullName(testcase_info.suite_full_name, testcase_info.name),
                  elapsed)
    IN  IF mismatch THEN Raise(self, NotSameSubTest)
        ELSE IF s2.raised # None THEN s2
        ELSE [s2 EXCEPT !.testcases_info[msg.id_].last_seen_timestamp = msg.elapsed]

\* Mutant: the active sub-test is forgotten before the names are compared.
sub_test_case_completed_clears_first(self, msg) ==
    IF msg.id_ \notin DOMAIN self.testcases_info THEN Raise(self, KeyError)
    ELSE
    LET testcase_info == self.testcases_info[msg.id_]
        mismatch == /\ testcase_info.active_subtest_name # None
                    /\ testcase_info.active_subtest_name # msg.name
        elapsed == FSub(msg.elapsed, testcase_info.last_seen_timestamp)
        s0 == [self EXCEPT !.testcases_info[msg.id_].active_subtest_name = None]
        s1 == [s0 EXCEPT
                 !.testcases_info[msg.id_].subtest_total_elapsed = FAdd(@, elapsed)]
        s2 == add_subtest_case_result(s1, msg, testcase_info.suite_full_name,
                  FullName(testcase_info.suite_full_name, testcase_info.name),
                  elapsed)
    IN  IF mismatch THEN Raise(s0, NotSameSubTest)
        ELSE IF s2.raised # None THEN s2
        ELSE [s2 EXCEPT !.testcases_info[msg.id_].last_seen_timestamp = msg.elapsed]

\* Mutant: the elapsed of a sub-test is taken the other way round.
sub_test_case_completed_swapped(self, msg) ==
    IF msg.id_ \notin DOMAIN self.testcases_info THEN Raise(self, KeyError)
    ELSE
    LET testcase_info == self.testcases_info[msg.id_]
        mismatch == /\ testcase_info.active_subtest_name # None
                    /\ testcase_info.active_subtest_name # msg.name
        elapsed == FSub(testcase_info.last_seen_timestamp, msg.elapsed)
        s1 == [self EXCEPT
                 !.testcases_info[msg.id_].active_subtest_name = None,
                 !.testcases_info[msg.id_].subtest_total_elapsed = FAdd(@, elapsed)]
        s2 == add_subtest_case_result(s1, msg, testcase_info.suite_full_name,
                  FullName(testcase_info.suite_full_name, testcase_info.name),
                  elapsed)
    IN  IF mismatch THEN Raise(self, NotSameSubTest)
        ELSE IF s2.raised # None THEN s2
        ELSE [s2 EXCEPT !.testcases_info[msg.id_].last_seen_timestamp = msg.elapsed]

sub_test_case_completed(self, msg) ==
    IF msg.id_ \notin DOMAIN self.testcases_info THEN Raise(self, KeyError)
    ELSE
    LET testcase_info == self.testcases_info[msg.id_]
        mismatch == /\ testcase_info.active_subtest_name # None
                    /\ testcase_info.active_subtest_name # msg.name
        elapsed == FSub(msg.elapsed, testcase_info.last_seen_timestamp)
        s1 == [self EXCEPT
                 !.testcases_info[msg.id_].active_subtest_name = None,
                 !.testcases_info[msg.id_].subtest_total_elapsed = FAdd(@, elapsed)]
        s2 == add_subtest_case_result(s1, msg, testcase_info.suite_full_name,
                  FullName(testcase_info.suite_full_name, testcase_info.name),
                  elapsed)
    IN  IF mismatch THEN Raise(self, NotSameSubTest)
        ELSE IF s2.raised # None THEN s2
        ELSE [s2 EXCEPT !.testcases_info[msg.id_].last_seen_timestamp = msg.elapsed]

\* Mutant: the sub-test left open is not closed.
sub_test_case_running_keeps_open(self, msg) ==
    IF msg.id_ \notin DOMAIN self.testcases_info THEN Raise(self, KeyError)
    ELSE [self EXCEPT !.testcases_info[msg.id_].active_subtest_name = msg.name,
                      !.testcases_info[msg.id_].last_seen_timestamp = msg.elapsed]

\* Mutant: a sub-test of an unknown id gets a runtime info made for it.
sub_test_case_running_creates(self, msg) ==
    LET known == IF msg.id_ \in DOMAIN self.testcases_info THEN self
                 ELSE [self EXCEPT !.testcases_info =
                          DictSet(@, msg.id_, TestCaseRuntimeInfo)]
        testcase_info == known.testcases_info[msg.id_]
        completed_message ==
            [SubTestMessage(msg.id_, testcase_info.active_subtest_name, PASSED, msg.elapsed)
                EXCEPT !.status = PASSED]
        s1 == IF testcase_info.active_subtest_name # None
              THEN sub_test_case_completed(known, completed_message)
              ELSE known
    IN  IF s1.raised # None THEN s1
        ELSE [s1 EXCEPT !.testcases_info[msg.id_].active_subtest_name = msg.name,
                        !.testcases_info[msg.id_].last_seen_timestamp = msg.elapsed]

sub_test_case_running(self, msg) ==
    IF msg.id_ \notin DOMAIN self.testcases_info THEN Raise(self, KeyError)
    ELSE
    LET testcase_info == self.testcases_info[msg.id_]
        completed_message ==
            [SubTestMessage(msg.id_, testcase_info.active_subtest_name, PASSED, msg.elapsed)
                EXCEPT !.status = PASSED]
        s1 == IF testcase_info.active_subtest_name # None
              THEN sub_test_case_completed(self, completed_message)
              ELSE self
    IN  IF s1.raised # None THEN s1
        ELSE [s1 EXCEPT !.testcases_info[msg.id_].active_subtest_name = msg.name,
                        !.testcases_info[msg.id_].last_seen_timestamp = msg.elapsed]

test_case_running(self, msg) ==
    LET s1 == init_test_case_info(self, msg)
    IN  IF s1.raised # None THEN s1
        ELSE set_test_case_runtime_info(s1, msg)

\* Mutant: the sink is not told of the test case before its result.
test_case_completed_without_init(self, msg) ==
    LET s2 == IF msg.id_ \notin DOMAIN self.testcases_info
              THEN set_test_case_runtime_info(self, msg)
              ELSE self
        testcase_info == s2.testcases_info[msg.id_]
        completed_message ==
            [SubTestMessage(msg.id_, testcase_info.active_subtest_name, msg.status, msg.elapsed)
                EXCEPT !.message = msg.message, !.stacktrace = msg.stacktrace]
        s3 == IF testcase_info.active_subtest_name # None
              THEN sub_test_case_completed(s2, completed_message)
              ELSE s2
        elapsed == FSub(msg.elapsed,
                        s3.testcases_info[msg.id_].subtest_total_elapsed)
    IN  IF s3.raised # None THEN s3
        ELSE add_test_case_result(s3, msg, msg.suite_full_name,
                                  msg.suite_full_name, elapsed)

\* Mutant: the runtime info is dropped once the test case result is out.
test_case_completed_discards(self, msg) ==
    LET s1 == init_test_case_info(self, msg)
        s2 == IF msg.id_ \notin DOMAIN s1.testcases_info
              THEN set_test_case_runtime_info(s1, msg)
              ELSE s1
        testcase_info == s2.testcases_info[msg.id_]
        completed_message ==
            [SubTestMessage(msg.id_, testcase_info.active_subtest_name, msg.status, msg.elapsed)
                EXCEPT !.message = msg.message, !.stacktrace = msg.stacktrace]
        s3 == IF testcase_info.active_subtest_name # None
              THEN sub_test_case_completed(s2, completed_message)
              ELSE s2
        elapsed == FSub(msg.elapsed,
                        s3.testcases_info[msg.id_].subtest_total_elapsed)
        s4 == add_test_case_result(s3, msg, msg.suite_full_name,
                                   msg.suite_full_name, elapsed)
    IN  IF s1.raised # None THEN s1
        ELSE IF s3.raised # None THEN s3
        ELSE [s4 EXCEPT !.testcases_info =
                 [id \in DOMAIN @ \ {msg.id_} |-> @[id]]]

test_case_completed(self, msg) ==
    LET s1 == init_test_case_info(self, msg)
        s2 == IF msg.id_ \notin DOMAIN s1.testcases_info
              THEN set_test_case_runtime_info(s1, msg)
              ELSE s1
        testcase_info == s2.testcases_info[msg.id_]
        completed_message ==
            [SubTestMessage(msg.id_, testcase_info.active_subtest_name, msg.status, msg.elapsed)
                EXCEPT !.message = msg.message, !.stacktrace = msg.stacktrace]
        s3 == IF testcase_info.active_subtest_name # None
              THEN sub_test_case_completed(s2, completed_message)
              ELSE s2
        elapsed == FSub(msg.elapsed,
                        s3.testcases_info[msg.id_].subtest_total_elapsed)
    IN  IF s1.raised # None THEN s1
        ELSE IF s3.raised # None THEN s3
        ELSE add_test_case_result(s3, msg, msg.suite_full_name,
                                  msg.suite_full_name, elapsed)

\* Mutant: every status but INITIALIZING is taken for the end of the run.
received_test_run_or_completed(self, msg) ==
    IF msg.status = INITIALIZING THEN test_run_started(self, msg)
    ELSE test_run_completed(self, msg)

received_test_run(self, msg) ==
    IF msg.status = INITIALIZING THEN test_run_started(self, msg)
    ELSE IF msg.status = RUN_FAILED \/ msg.status = SUCCESS
    THEN test_run_completed(self, msg)
    ELSE self

\* Mutant: a status that is not terminal is taken for RUNNING.
received_test_result_else_running(self, msg) ==
    LET s1 == IF ~is_completed(msg.status) \/ msg.status = SKIPPED
              THEN test_case_running(self, msg)
              ELSE self
    IN  IF s1.raised # None THEN s1
        ELSE IF is_completed(msg.status) THEN test_case_completed(s1, msg)
        ELSE s1

received_test_result(self, msg) ==
    LET s1 == IF msg.status \in {RUNNING, SKIPPED}
              THEN test_case_running(self, msg)
              ELSE self
    IN  IF s1.raised # None THEN s1
        ELSE IF is_completed(msg.status) THEN test_case_completed(s1, msg)
        ELSE s1

received_sub_test(self, msg) ==
    IF msg.status = RUNNING THEN sub_test_case_running(self, msg)
    ELSE IF is_completed(msg.status) THEN sub_test_case_completed(self, msg)
    ELSE self

finalize(file, failure) ==
    IF notifier = JUNIT THEN JUnit_finalize(file, failure)
    ELSE Collector_finalize(file, failure)

received_message(self, msg) ==
    IF msg.type = "TestRunMessage" THEN received_test_run(self, msg)
    ELSE IF msg.type = "TestResultMessage" THEN received_test_result(self, msg)
    ELSE IF msg.type = "SubTestMessage" THEN received_sub_test(self, msg)
    ELSE self

(* ------------------------------ actions -------------------------------- *)

\* After __init__ and _initialize.
Constructed ==
    /\ notifier \in {JUNIT, COLLECTOR}
    /\ testcases_info = EmptyDict
    /\ test_cases = EmptyDict
    /\ testsuites_xml_info = EmptyDict
    /\ testcases_xml_info = EmptyDict
    /\ testsuites = [name |-> None, time |-> None, tests |-> None,
                     failures |-> None, errors |-> None]
    /\ emitted = <<>>
    /\ hooks = <<>>
    /\ sub_elapsed_sum = EmptyDict
    /\ completed = {}
    /\ before = [testcases_info |-> EmptyDict, test_cases |-> EmptyDict,
                 completed |-> {}]
    /\ case_status = EmptyDict
    /\ wellformed = EmptyDict
    /\ raised = None
    /\ message = NoMessage
    /\ clock = 0
    /\ report_file = IF notifier = JUNIT THEN open ELSE None
    /\ finalized = None

Init ==
    /\ Constructed
    /\ solo = EmptyDict

Range(seq) == {seq[i] : i \in DOMAIN seq}

\* The sums with the elapsed of the sub-test results of calls added.
RECURSIVE SubElapsedSum(_, _)
SubElapsedSum(sums, calls) ==
    IF calls = <<>> THEN sums
    ELSE LET r == Head(calls)
             id == r.message.id_
             old == IF id \in DOMAIN sums THEN sums[id] ELSE 0
         IN  SubElapsedSum(IF r.kind = "subtest"
                           THEN DictSet(sums, id, old + r.elapsed)
                           ELSE sums,
                           Tail(calls))

\* The statuses with a completing test case message noted.
CaseStatus(statuses, msg) ==
    IF msg.type = "TestResultMessage" /\ is_completed(msg.status)
    THEN DictSet(statuses, msg.id_, msg.status)
    ELSE statuses

\* The protocol of one id: the test case RUNNING first, then messages of its
\* sub-tests, then one completing message of the test case.
WellFormed(phases, msg) ==
    IF msg.type = "TestRunMessage" THEN phases
    ELSE LET phase == IF msg.id_ \in DOMAIN phases THEN phases[msg.id_] ELSE "new"
             next ==
                 IF msg.type = "TestResultMessage"
                 THEN IF phase = "new" /\ msg.status = RUNNING THEN "running"
                      ELSE IF phase = "running" /\ is_completed(msg.status)
                      THEN "completed"
                      ELSE "malformed"
                 ELSE IF phase = "running" THEN "running" ELSE "malformed"
         IN  DictSet(phases, msg.id_, next)

\* One call of _received_message: the handler runs to its return or its raise.
Handle(msg) ==
    \E after \in {received_message(Self, msg)} :
        /\ msg.elapsed >= clock
        /\ testcases_info' = after.testcases_info
        /\ test_cases' = after.test_cases
        /\ testsuites_xml_info' = after.testsuites_xml_info
        /\ testcases_xml_info' = after.testcases_xml_info
        /\ testsuites' = after.testsuites
        /\ emitted' = after.emitted
        /\ hooks' = after.hooks
        /\ raised' = after.raised
        /\ message' = msg
        /\ clock' = msg.elapsed
        /\ UNCHANGED notifier

\* What one call adds to the record kept of the calls so far.
Observe ==
    /\ sub_elapsed_sum' = SubElapsedSum(sub_elapsed_sum, emitted')
    /\ completed' = completed \cup
           {r.message.id_ : r \in {x \in Range(emitted') : x.kind = "case"}}
    /\ before' = [testcases_info |-> testcases_info, test_cases |-> test_cases,
                  completed |-> completed]
    /\ case_status' = CaseStatus(case_status, message')
    /\ wellformed' = WellFormed(wellformed, message')

\* The runner sends messages until it finalizes the notifier.
Receive(msg) ==
    /\ finalized = None
    /\ Handle(msg)
    /\ Observe
    /\ UNCHANGED <<solo, report_file, finalized>>

\* The producers read one clock: the next message is sent at the time of the
\* last one or at the next of Times.
Now == {t \in Times : t >= clock /\ \A u \in Times : u > clock => t <= u}

ReceiveTestRun ==
    \E status \in TestRunStatus, elapsed \in Now :
        Receive(TestRunMessage(status, elapsed))

ReceiveTestResult ==
    \E id \in Ids, suite \in Suites, status \in TestStatus, elapsed \in Now :
        Receive(TestResultMessage(id, suite, status, elapsed))

ReceiveSubTest ==
    \E id \in Ids, name \in SubNames, status \in SubTestStatus, elapsed \in Now :
        Receive(SubTestMessage(id, name, status, elapsed))

\* One call of finalize, the last call the runner makes.
Finalize ==
    /\ finalized = None
    /\ \E failure \in WriteFailures :
           \E after \in {finalize(report_file, failure)} :
               /\ report_file' = after.report_file
               /\ finalized' = after.raised
    /\ UNCHANGED <<notifier, testcases_info, test_cases, testsuites_xml_info,
                   testcases_xml_info, testsuites, emitted, hooks,
                   sub_elapsed_sum, completed, before, case_status, wellformed,
                   raised, message, clock, solo>>

Next == ReceiveTestRun \/ ReceiveTestResult \/ ReceiveSubTest \/ Finalize

Spec == Init /\ [][Next]_vars

(* ------------------ messages of two test cases at once ----------------- *)

\* Two test cases run at once; each sends its own messages in order and the
\* notifier receives them in any interleaving.
Ids2 == {1, 2}
CaseStatus2 == {RUNNING, PASSED, SKIPPED}
SubStatus2 == {RUNNING, FAILED}
SubNames2 == {"a"}

\* A notifier object after __init__ and _initialize.
NewNotifier ==
    [testcases_info |-> EmptyDict, test_cases |-> EmptyDict,
     testsuites_xml_info |-> EmptyDict, testcases_xml_info |-> EmptyDict,
     testsuites |-> [name |-> None, time |-> None, tests |-> None,
                     failures |-> None, errors |-> None],
     emitted |-> <<>>, hooks |-> <<>>, raised |-> None]

InitInterleaved ==
    /\ Constructed
    /\ solo = [id \in Ids2 |-> NewNotifier]

\* The notifier receives a message of id; so does the notifier that receives
\* the messages of id alone.
ReceiveOf(id, msg) ==
    /\ Handle(msg)
    /\ UNCHANGED <<sub_elapsed_sum, completed, before, case_status, wellformed,
                   report_file, finalized>>
    /\ solo' = [solo EXCEPT ![id] =
                   received_message([@ EXCEPT !.emitted = <<>>, !.hooks = <<>>,
                                               !.raised = None], msg)]

ReceiveTestResultOf ==
    \E id \in Ids2, suite \in Suites, status \in CaseStatus2, elapsed \in Now :
        ReceiveOf(id, TestResultMessage(id, suite, status, elapsed))

ReceiveSubTestOf ==
    \E id \in Ids2, name \in SubNames2, status \in SubStatus2, elapsed \in Now :
        ReceiveOf(id, SubTestMessage(id, name, status, elapsed))

NextInterleaved == ReceiveTestResultOf \/ ReceiveSubTestOf

SpecInterleaved == InitInterleaved /\ [][NextInterleaved]_vars

(* ------------- two test cases, sub-tests of different names ------------ *)

\* Two test cases that have started send sub-test messages of two names.
CaseStatusNamed == {RUNNING}
SubStatusNamed == {RUNNING, PASSED}

\* One call of _received_message with a message of one of the two ids.
ReceiveNamed(msg) ==
    /\ Handle(msg)
    /\ UNCHANGED <<sub_elapsed_sum, completed, before, case_status, wellformed,
                   solo, report_file, finalized>>

ReceiveTestResultNamed ==
    \E id \in Ids2, suite \in Suites, status \in CaseStatusNamed, elapsed \in Now :
        ReceiveNamed(TestResultMessage(id, suite, status, elapsed))

ReceiveSubTestNamed ==
    \E id \in Ids2, name \in SubNames, status \in SubStatusNamed, elapsed \in Now :
        ReceiveNamed(SubTestMessage(id, name, status, elapsed))

NextNamed == ReceiveTestResultNamed \/ ReceiveSubTestNamed

SpecNamed == Init /\ [][NextNamed]_vars

(* --------------------- the XML writer, hook by hook -------------------- *)

\* The methods of JUnit called one at a time on one JUnit object, as a caller
\* of the sink's hooks may call them.
MaxTests == 2
MaxChildren == 1
SuitesXml == {"S1", "S2"}
StatusXml == {PASSED, FAILED}
ElapsedXml == {3}

InitXml ==
    /\ Constructed
    /\ notifier = JUNIT
    /\ solo = EmptyDict

\* One call of a method of JUnit with the message msg.
CallXml(method, msg, after) ==
    /\ testsuites_xml_info' = after.testsuites_xml_info
    /\ testcases_xml_info' = after.testcases_xml_info
    /\ testsuites' = after.testsuites
    /\ hooks' = <<method>>
    /\ raised' = after.raised
    /\ message' = msg
    /\ UNCHANGED <<notifier, testcases_info, test_cases, emitted,
                   sub_elapsed_sum, completed, before, case_status, wellformed,
                   clock, solo, report_file, finalized>>

XmlTestRunStarted ==
    \E elapsed \in ElapsedXml :
        LET msg == TestRunMessage(INITIALIZING, elapsed)
        IN  CallXml("_test_run_started", msg, JUnit_test_run_started(Self, msg))

XmlTestRunCompleted ==
    \E status \in {SUCCESS, RUN_FAILED}, elapsed \in ElapsedXml :
        LET msg == TestRunMessage(status, elapsed)
        IN  CallXml("_test_run_completed", msg, JUnit_test_run_completed(Self, msg))

XmlSetTestCaseInfo ==
    \E suite \in SuitesXml, status \in StatusXml, elapsed \in ElapsedXml :
        LET msg == TestResultMessage(1, suite, status, elapsed)
        IN  CallXml("_set_test_case_info", msg, JUnit_set_test_case_info(Self, msg))

\* The children of the testcase element of a suite's case, if it is there.
ChildrenXml(suite) ==
    IF FullName(suite, CaseName) \in DOMAIN testcases_xml_info
    THEN Len(testcases_xml_info[FullName(suite, CaseName)].children)
    ELSE 0

XmlAddTestCaseResult ==
    \E suite \in SuitesXml, status \in StatusXml, elapsed \in ElapsedXml :
        LET msg == TestResultMessage(1, suite, status, elapsed)
        IN  /\ suite \in DOMAIN testsuites_xml_info =>
                   testsuites_xml_info[suite].test_count < MaxTests
            /\ ChildrenXml(suite) < MaxChildren \/ status = PASSED
            /\ CallXml("_add_test_case_result", msg,
                       JUnit_add_test_case_result(Self, msg, suite, suite, elapsed))

XmlAddSubtestCaseResult ==
    \E suite \in SuitesXml, name \in SubNames2, status \in StatusXml, elapsed \in ElapsedXml :
        LET msg == SubTestMessage(1, name, status, elapsed)
        IN  /\ ChildrenXml(suite) < MaxChildren
            /\ CallXml("_add_subtest_case_result", msg,
                       JUnit_add_subtest_case_result(Self, msg, suite,
                           FullName(suite, CaseName), elapsed))

NextXml ==
    \/ XmlTestRunStarted
    \/ XmlTestRunCompleted
    \/ XmlSetTestCaseInfo
    \/ XmlAddTestCaseResult
    \/ XmlAddSubtestCaseResult

SpecXml == InitXml /\ [][NextXml]_vars

(* ------------------------------- claims -------------------------------- *)

\* What the claims read off the state.
IsCaseMessage(msg) == msg.type = "TestResultMessage"
IsSubMessage(msg) == msg.type = "SubTestMessage"
IsRunMessage(msg) == msg.type = "TestRunMessage"
Completing(msg) == (IsCaseMessage(msg) \/ IsSubMessage(msg)) /\ is_completed(msg.status)
SubSum(id) == IF id \in DOMAIN sub_elapsed_sum THEN sub_elapsed_sum[id] ELSE 0
CaseResults == {r \in Range(emitted) : r.kind = "case"}
SubResults == {r \in Range(emitted) : r.kind = "subtest"}
\* The runtime info of the message's id as the handler found it.
HadInfo == ~IsRunMessage(message) /\ message # NoMessage
           /\ message.id_ \in DOMAIN before.testcases_info
InfoBefore == before.testcases_info[message.id_]
HadActive == HadInfo /\ InfoBefore.active_subtest_name # None

\* C1: the elapsed of every test case result handed to the sink is the
\* elapsed of the completing message minus the sum of the elapsed of all
\* sub-test results handed over for that id, whatever the terminal status.
C1_NoDoubleCounting ==
    \A r \in CaseResults :
        r.elapsed = r.message.elapsed - SubSum(r.message.id_)

\* C2: after a well-formed sequence of messages of one id (the case RUNNING
\* first, sub-test messages, one completing case message last, elapsed never
\* decreasing) the sub-test results sum to at most the elapsed of the
\* completing message and the elapsed of the case result is not negative.
C2_SubtestsWithinCase ==
    \A r \in CaseResults :
        LET id == r.message.id_
        IN  (id \in DOMAIN wellformed /\ wellformed[id] = "completed") =>
                /\ SubSum(id) <= r.message.elapsed
                /\ r.elapsed >= 0

\* C3: a completing test case message of any terminal status that finds a
\* sub-test active first hands over a sub-test result for the active sub-test
\* with the status, message and stacktrace of the case message and elapsed =
\* message.elapsed - last_seen_timestamp, and then the test case result.
C3_CaseCompletionClosesSubtest ==
    (IsCaseMessage(message) /\ Completing(message) /\ HadActive) =>
        /\ Len(emitted) = 2
        /\ emitted[1].kind = "subtest"
        /\ emitted[1].message.name = InfoBefore.active_subtest_name
        /\ emitted[1].message.status = message.status
        /\ emitted[1].message.message = message.message
        /\ emitted[1].message.stacktrace = message.stacktrace
        /\ emitted[1].elapsed = FSub(message.elapsed, InfoBefore.last_seen_timestamp)
        /\ emitted[2].kind = "case"
        /\ emitted[2].message = message

\* C4: a RUNNING sub-test message with elapsed t that finds a sub-test active
\* hands over a sub-test result for the active one, PASSED, with elapsed =
\* t - last_seen_timestamp; afterwards the new name is active and
\* last_seen_timestamp is t.
C4_RunningClosesPrevious ==
    (IsSubMessage(message) /\ message.status = RUNNING /\ HadActive) =>
        /\ raised = None
        /\ Len(emitted) = 1
        /\ emitted[1].kind = "subtest"
        /\ emitted[1].message.name = InfoBefore.active_subtest_name
        /\ emitted[1].message.status = PASSED
        /\ emitted[1].elapsed = FSub(message.elapsed, InfoBefore.last_seen_timestamp)
        /\ testcases_info[message.id_].active_subtest_name = message.name
        /\ testcases_info[message.id_].last_seen_timestamp = message.elapsed

C4_Witness ==
    /\ IsSubMessage(message) /\ message.status = RUNNING /\ HadActive
    /\ InfoBefore.active_subtest_name # message.name
    /\ Len(emitted) = 1 /\ emitted[1].elapsed > 0

\* C5: a completing sub-test message whose name differs from the active
\* sub-test of its id raises and no sub-test result is handed over.
C5_MismatchRaises ==
    (IsSubMessage(message) /\ Completing(message) /\ HadActive
        /\ InfoBefore.active_subtest_name # message.name) =>
        /\ raised = NotSameSubTest
        /\ emitted = <<>>

C5_Witness ==
    /\ IsSubMessage(message) /\ Completing(message) /\ HadActive
    /\ InfoBefore.active_subtest_name # message.name
    /\ raised = NotSameSubTest

\* C6 as claimed: a completing sub-test message for an id with no sub-test
\* active raises, hands over no sub-test result and leaves
\* subtest_total_elapsed as it was.
C6_IdleCompletionRaises ==
    (IsSubMessage(message) /\ Completing(message) /\ HadInfo /\ ~HadActive) =>
        /\ raised # None
        /\ emitted = <<>>
        /\ testcases_info[message.id_].subtest_total_elapsed =
               InfoBefore.subtest_total_elapsed

\* C6 as amended: a completing sub-test message for an id that has runtime
\* info and no sub-test active is accepted: one sub-test result is handed
\* over for it with elapsed = message.elapsed - last_seen_timestamp,
\* subtest_total_elapsed grows by that elapsed and last_seen_timestamp becomes
\* message.elapsed.
C6_IdleCompletionAccepted ==
    (IsSubMessage(message) /\ Completing(message) /\ HadInfo /\ ~HadActive) =>
        LET elapsed == FSub(message.elapsed, InfoBefore.last_seen_timestamp)
            info == testcases_info[message.id_]
        IN  /\ raised = None
            /\ Len(emitted) = 1
            /\ emitted[1].kind = "subtest"
            /\ emitted[1].message = message
            /\ emitted[1].elapsed = elapsed
            /\ info.subtest_total_elapsed = FAdd(InfoBefore.subtest_total_elapsed, elapsed)
            /\ info.last_seen_timestamp = message.elapsed
            /\ info.active_subtest_name = None

C6_Witness ==
    /\ IsSubMessage(message) /\ Completing(message) /\ HadInfo /\ ~HadActive
    /\ Len(emitted) = 1 /\ emitted[1].elapsed > 0
    /\ testcases_info[message.id_].subtest_total_elapsed >
           InfoBefore.subtest_total_elapsed

\* C7: a completing test case message of any terminal status for an id whose
\* case was seen RUNNING is processed with the runtime info kept since then:
\* the active sub-test found is closed and the case result gets elapsed =
\* message.elapsed - subtest_total_elapsed of that runtime info.
C7_CompletionKeepsRuntime ==
    (IsCaseMessage(message) /\ Completing(message) /\ HadInfo /\ raised = None) =>
        LET sub == FSub(message.elapsed, InfoBefore.last_seen_timestamp)
            total == IF HadActive
                     THEN FAdd(InfoBefore.subtest_total_elapsed, sub)
                     ELSE InfoBefore.subtest_total_elapsed
        IN  /\ Len(emitted) = (IF HadActive THEN 2 ELSE 1)
            /\ emitted[Len(emitted)].kind = "case"
            /\ emitted[Len(emitted)].elapsed = FSub(message.elapsed, total)
            /\ testcases_info[message.id_].subtest_total_elapsed = total

\* C8: with JUnit as the notifier, when the run completed message has been
\* processed the root element's tests is the number of test cases that
\* completed and its failures the number of those that FAILED.
C8_RootCounts ==
    (notifier = JUNIT /\ IsRunMessage(message)
        /\ message.status \in {SUCCESS, RUN_FAILED}) =>
        /\ testsuites.tests = ToString(Cardinality(DOMAIN case_status))
        /\ testsuites.failures =
               ToString(Cardinality({id \in DOMAIN case_status :
                                        case_status[id] = FAILED}))

\* C9: every result is handed to a sink that already holds the suite and the
\* test case the result is for, and no handler ends in the sink's
\* "not started" exception.
C9_StartedBeforeResults ==
    /\ raised \notin {CaseNotStarted, SuiteNotStarted}
    /\ \A r \in Range(emitted) : r.started

C9_Witness ==
    /\ Len(emitted) = 2
    /\ emitted[1].kind = "subtest" /\ emitted[1].started
    /\ emitted[2].kind = "case" /\ emitted[2].started

\* C10 as claimed: once a test case result was handed over for an id, no
\* later message for that id hands over a further result.
C10_CompletedIsTerminal ==
    (message # NoMessage /\ ~IsRunMessage(message)
        /\ message.id_ \in before.completed) =>
        emitted = <<>>

\* C10 as amended: completion is not terminal.  After a test case result was
\* handed over for an id its runtime info is kept; a later completing test
\* case message for that id hands over a further test case result, and a
\* later completing sub-test message hands over a further sub-test result
\* unless its name differs from the active sub-test.
C10_CompletedNotTerminal ==
    (message # NoMessage /\ ~IsRunMessage(message)
        /\ message.id_ \in before.completed) =>
        /\ message.id_ \in DOMAIN testcases_info
        /\ (IsCaseMessage(message) /\ Completing(message)) =>
               /\ raised = None
               /\ Cardinality(CaseResults) = 1
               /\ emitted[Len(emitted)].kind = "case"
               /\ emitted[Len(emitted)].message = message
        /\ (IsSubMessage(message) /\ Completing(message)
               /\ ~(HadActive /\ InfoBefore.active_subtest_name # message.name)) =>
               /\ raised = None
               /\ Len(emitted) = 1
               /\ emitted[1].kind = "subtest"
               /\ emitted[1].message = message

C10_Witness ==
    /\ IsSubMessage(message) /\ Completing(message)
    /\ message.id_ \in before.completed
    /\ Len(emitted) = 1 /\ emitted[1].kind = "subtest"

\* What a result says of its test case: kind, names, status and elapsed.
Shown(calls) ==
    [i \in DOMAIN calls |->
        [kind |-> calls[i].kind, message |-> calls[i].message,
         owner |-> calls[i].owner, elapsed |-> calls[i].elapsed]]

\* C11: whatever the interleaving of the messages of two ids, every handler
\* hands over for its id the results the notifier that receives that id's
\* messages alone hands over, and the runtime info of each id is the one that
\* notifier holds.
C11_InterleavingIndependent ==
    /\ (message # NoMessage /\ message.id_ \in DOMAIN solo) =>
           Shown(emitted) = Shown(solo[message.id_].emitted)
    /\ \A id \in DOMAIN solo :
           /\ id \in DOMAIN testcases_info <=> id \in DOMAIN solo[id].testcases_info
           /\ id \in DOMAIN testcases_info =>
                  testcases_info[id] = solo[id].testcases_info[id]

\* Both ids are between their RUNNING and their completion, each with a
\* sub-test result behind it, and the last handler closed a sub-test and
\* the test case of one of them.
C11_Witness ==
    /\ DOMAIN solo = Ids2
    /\ DOMAIN testcases_info = Ids2
    /\ \A id \in Ids2 : testcases_info[id].subtest_total_elapsed > 0
    /\ Len(emitted) = 2

\* C12: however _write_results ends, when finalize of the XML writer returns
\* or propagates the error the report file is closed, and close was called on
\* it exactly once.
C12_FileClosedOnce ==
    (notifier = JUNIT /\ finalized # None) =>
        /\ report_file.closed
        /\ report_file.close_calls = 1

\* Writing raised and finalize propagated the error with the file closed.
C12_Witness ==
    /\ notifier = JUNIT
    /\ finalized = OSError
    /\ report_file.closed
    /\ report_file.content = "partial"

\* The label the claim gives a status.
Label(status) ==
    IF status = PASSED THEN "PASSED"
    ELSE IF status = FAILED THEN "FAILED"
    ELSE "SKIPPED"

\* The sub-test results the last handler handed over for a sub-test of a case.
Delivered(case, name) ==
    {i \in DOMAIN emitted : /\ emitted[i].kind = "subtest"
                            /\ emitted[i].owner = case
                            /\ emitted[i].message.name = name}

Last(indices) == CHOOSE i \in indices : \A j \in indices : j <= i

\* C13: in the collector, after every handler the label of each (case full
\* name, sub-test name) pair is the label of the last sub-test result handed
\* over for the pair (PASSED, FAILED, and SKIPPED for SKIPPED or ATTEMPTED);
\* a pair no result was handed over for keeps the label it had, and no pair
\* is dropped.
C13_LastLabelWins ==
    (notifier = COLLECTOR /\ message # NoMessage) =>
        /\ \A case \in DOMAIN test_cases : \A name \in DOMAIN test_cases[case] :
               IF Delivered(case, name) # {}
               THEN test_cases[case][name] =
                        Label(emitted[Last(Delivered(case, name))].message.status)
               ELSE /\ case \in DOMAIN before.test_cases
                    /\ name \in DOMAIN before.test_cases[case]
                    /\ test_cases[case][name] = before.test_cases[case][name]
        /\ \A case \in DOMAIN before.test_cases :
               /\ case \in DOMAIN test_cases
               /\ DOMAIN before.test_cases[case] \subseteq DOMAIN test_cases[case]
        /\ \A r \in SubResults :
               /\ r.owner \in DOMAIN test_cases
               /\ r.message.name \in DOMAIN test_cases[r.owner]

\* A label was overwritten by a different one while another sub-test's label
\* stayed.
C13_Witness ==
    /\ notifier = COLLECTOR
    /\ \E r \in SubResults :
          /\ r.owner \in DOMAIN before.test_cases
          /\ r.message.name \in DOMAIN before.test_cases[r.owner]
          /\ before.test_cases[r.owner][r.message.name] = "PASSED"
          /\ test_cases[r.owner][r.message.name] = "SKIPPED"
          /\ r.message.status = ATTEMPTED
          /\ \E other \in DOMAIN test_cases[r.owner] :
                /\ other # r.message.name
                /\ test_cases[r.owner][other] = "FAILED"

\* The last message forwarded a run completed notification to the sink.
RunCompleted == IsRunMessage(message) /\ message.status \in {SUCCESS, RUN_FAILED}

\* C14: once a run completed notification was forwarded to the sink no
\* further test case result or sub-test result is handed to it; in
\* particular the handler that runs right after the notification hands over
\* none.
C14_NoResultAfterRunCompleted ==
    [][RunCompleted => emitted' = <<>>]_vars

\* C15: a test run message calls _test_run_started and nothing else when its
\* status is INITIALIZING, _test_run_completed and nothing else when it is
\* SUCCESS or FAILED, and no hook for any other status; it hands over no
\* result and leaves every runtime info as it was.
C15_RunMessageHooks ==
    IsRunMessage(message) =>
        /\ hooks = (IF message.status = INITIALIZING THEN <<"_test_run_started">>
                    ELSE IF message.status \in {SUCCESS, RUN_FAILED}
                    THEN <<"_test_run_completed">>
                    ELSE <<>>)
        /\ emitted = <<>>
        /\ raised = None
        /\ testcases_info = before.testcases_info

\* A run message of a status that is neither the start nor the end of the
\* run arrived while a test case had a sub-test open.
C15_Witness ==
    /\ IsRunMessage(message)
    /\ message.status = RUN_RUNNING
    /\ hooks = <<>>
    /\ \E id \in DOMAIN testcases_info :
          testcases_info[id].active_subtest_name # None

\* C16: a completing test case message for an id that has no runtime info
\* (its case was never seen RUNNING) creates the runtime info from the
\* message and hands over exactly one result, the test case result with
\* elapsed = message.elapsed, and no sub-test result.
C16_CompletionWithoutRunning ==
    (IsCaseMessage(message) /\ Completing(message) /\ ~HadInfo) =>
        /\ raised = None
        /\ message.id_ \in DOMAIN testcases_info
        /\ testcases_info[message.id_].suite_full_name = message.suite_full_name
        /\ testcases_info[message.id_].name = message.name
        /\ Len(emitted) = 1
        /\ emitted[1].kind = "case"
        /\ emitted[1].message = message
        /\ emitted[1].elapsed = message.elapsed

\* C17: for every id, with elapsed values that never decrease, no handler
\* leaves subtest_total_elapsed of the id's runtime info smaller than it found
\* it, and when the completing test case message has been processed
\* subtest_total_elapsed is at most the elapsed of that message.
C17_TotalMonotoneAndBounded ==
    /\ (HadInfo /\ message.id_ \in DOMAIN testcases_info) =>
           testcases_info[message.id_].subtest_total_elapsed >=
               InfoBefore.subtest_total_elapsed
    /\ (IsCaseMessage(message) /\ Completing(message)
           /\ message.id_ \in DOMAIN testcases_info) =>
           testcases_info[message.id_].subtest_total_elapsed <= message.elapsed

\* A counter of a suite, 0 for a suite the writer has not seen.
CountXml(suite, field) ==
    IF suite \in DOMAIN testsuites_xml_info
    THEN testsuites_xml_info[suite][field]
    ELSE 0

\* C18: when _test_run_completed of the XML writer has run, every suite
\* element has tests and failures equal to the suite's test_count and
\* failed_count and errors "0", and the root element has tests and failures
\* equal to the sums of the suites' test_count and failed_count.
C18_RunCompletedTotals ==
    (notifier = JUNIT /\ hooks = <<"_test_run_completed">>) =>
        /\ \A s \in DOMAIN testsuites_xml_info :
               /\ testsuites_xml_info[s].tests = ToString(testsuites_xml_info[s].test_count)
               /\ testsuites_xml_info[s].failures = ToString(testsuites_xml_info[s].failed_count)
               /\ testsuites_xml_info[s].errors = "0"
        /\ testsuites.tests =
               ToString(CountXml("S1", "test_count") + CountXml("S2", "test_count"))
        /\ testsuites.failures =
               ToString(CountXml("S1", "failed_count") + CountXml("S2", "failed_count"))
        /\ testsuites.errors = "0"

\* The run completed with two suites that have different counts.
C18_Witness ==
    /\ hooks = <<"_test_run_completed">>
    /\ DOMAIN testsuites_xml_info = SuitesXml
    /\ testsuites_xml_info["S1"].test_count = 2
    /\ testsuites_xml_info["S2"].test_count = 1
    /\ testsuites.tests = "3"

\* C19: in the XML writer a call of _add_subtest_case_result, whatever the
\* status, leaves test_count and failed_count of every suite as they were,
\* and a call that changes a counter of a suite is a call of
\* _add_test_case_result.
C19_SubtestKeepsCounts ==
    [][/\ hooks' = <<"_add_subtest_case_result">> =>
              /\ DOMAIN testsuites_xml_info' = DOMAIN testsuites_xml_info
              /\ \A s \in DOMAIN testsuites_xml_info :
                     /\ testsuites_xml_info'[s].test_count = testsuites_xml_info[s].test_count
                     /\ testsuites_xml_info'[s].failed_count = testsuites_xml_info[s].failed_count
       /\ (\E s \in DOMAIN testsuites_xml_info \cap DOMAIN testsuites_xml_info' :
              \/ testsuites_xml_info'[s].test_count # testsuites_xml_info[s].test_count
              \/ testsuites_xml_info'[s].failed_count # testsuites_xml_info[s].failed_count)
              => hooks' = <<"_add_test_case_result">>
      ]_vars

\* A FAILED sub-test result was added under a case of a suite that has
\* counted a test.
C19_Witness ==
    /\ hooks = <<"_add_subtest_case_result">>
    /\ raised = None
    /\ message.status = FAILED
    /\ \E s \in DOMAIN testsuites_xml_info :
          /\ testsuites_xml_info[s].test_count = 1
          /\ FullName(s, CaseName) \in DOMAIN testcases_xml_info
          /\ \E c \in Range(testcases_xml_info[FullName(s, CaseName)].children) :
                c.tag = "subtestcase"

\* C20: with the XML writer as the notifier, once a test case message that is
\* RUNNING, SKIPPED or completing has been processed the writer holds the
\* suite element of the message's suite and, under it, one testcase element
\* for the message's (suite_full_name, name), so that a test case result
\* finds the case started.
C20_CaseNodeCreated ==
    (notifier = JUNIT /\ IsCaseMessage(message)
        /\ (message.status \in {RUNNING, SKIPPED} \/ Completing(message))) =>
        /\ message.suite_full_name \in DOMAIN testsuites_xml_info
        /\ FullName(message.suite_full_name, message.name) \in DOMAIN testcases_xml_info
        /\ raised \notin {NotImplementedError, CaseNotStarted, SuiteNotStarted}

\* The last handler raised for a completed sub-test that is not the active one.
Mismatched ==
    IsSubMessage(message) /\ Completing(message) /\ raised = NotSameSubTest

\* C21: a completing sub-test message that raises the name mismatch leaves
\* every runtime info and the sink as the handler found them and hands over
\* no result; a completing sub-test message with the active name that comes
\* next is processed as usual: it hands over its sub-test result with
\* elapsed = message.elapsed - last_seen_timestamp and closes the sub-test.
C21_MismatchLeavesState ==
    [][/\ (IsSubMessage(message') /\ Completing(message')
              /\ raised' = NotSameSubTest) =>
              /\ testcases_info' = testcases_info
              /\ test_cases' = test_cases
              /\ testcases_xml_info' = testcases_xml_info
              /\ emitted' = <<>>
       /\ (Mismatched /\ IsSubMessage(message') /\ Completing(message')
              /\ message'.id_ = message.id_
              /\ message'.name = testcases_info[message.id_].active_subtest_name) =>
              /\ raised' = None
              /\ Len(emitted') = 1
              /\ emitted'[1].kind = "subtest"
              /\ emitted'[1].message = message'
              /\ emitted'[1].elapsed =
                     FSub(message'.elapsed,
                          testcases_info[message.id_].last_seen_timestamp)
              /\ testcases_info'[message.id_].active_subtest_name = None
      ]_vars

\* A mismatch was raised for an id that has sub-test time behind it while
\* another id has a sub-test open.
C21_Witness ==
    /\ Mismatched
    /\ emitted = <<>>
    /\ testcases_info[message.id_].active_subtest_name \notin {None, message.name}
    /\ testcases_info[message.id_].subtest_total_elapsed > 0
    /\ testcases_info[message.id_].last_seen_timestamp < message.elapsed
    /\ \E other \in DOMAIN testcases_info :
          /\ other # message.id_
          /\ testcases_info[other].active_subtest_name # None

\* C22: a test case message whose status is not RUNNING, not SKIPPED and not
\* terminal (QUEUED) creates no runtime info, changes none, calls no hook of
\* the sink and hands over no result.
C22_OtherStatusIgnored ==
    (IsCaseMessage(message) /\ message.status \notin {RUNNING, SKIPPED}
        /\ ~Completing(message)) =>
        /\ testcases_info = before.testcases_info
        /\ test_cases = before.test_cases
        /\ hooks = <<>>
        /\ emitted = <<>>
        /\ raised = None

\* A QUEUED test case message arrived for an id that has a sub-test open.
C22_Witness ==
    /\ IsCaseMessage(message)
    /\ message.status = QUEUED
    /\ HadActive
    /\ testcases_info[message.id_].active_subtest_name # None
    /\ hooks = <<>>

\* C23: with elapsed values that never decrease, every sub-test result handed
\* over, for a completing sub-test message or for a sub-test closed by a
\* RUNNING sub-test message or by the completion of the test case, has
\* elapsed >= 0; last_seen_timestamp of every runtime info is the elapsed of
\* a message received so far, hence at most the elapsed of the last one.
C23_SubElapsedNotNegative ==
    /\ \A r \in SubResults : r.elapsed >= 0
    /\ \A id \in DOMAIN testcases_info :
           /\ testcases_info[id].last_seen_timestamp \in Times
           /\ testcases_info[id].last_seen_timestamp <= clock

\* The completion of the test case closed a sub-test that was open for a
\* while, after an earlier sub-test result.
C23_Witness ==
    /\ IsCaseMessage(message)
    /\ Len(emitted) = 2
    /\ emitted[1].kind = "subtest"
    /\ emitted[1].elapsed > 0
    /\ HadActive
    /\ InfoBefore.last_seen_timestamp > 0
    /\ InfoBefore.subtest_total_elapsed > 0

\* C24: a sub-test message, RUNNING or completing, for an id that has no
\* runtime info ends in an error (the KeyError of the dictionary lookup),
\* hands over no result and creates no runtime info.
C24_UnknownIdFails ==
    (IsSubMessage(message) /\ (message.status = RUNNING \/ Completing(message))
        /\ ~HadInfo) =>
        /\ raised = KeyError
        /\ emitted = <<>>
        /\ hooks = <<>>
        /\ message.id_ \notin DOMAIN testcases_info
        /\ testcases_info = before.testcases_info

\* With the collector as the notifier, a RUNNING sub-test message came first
\* for its id, some time into the run.
C24_Witness ==
    /\ notifier = COLLECTOR
    /\ IsSubMessage(message)
    /\ message.status = RUNNING
    /\ message.elapsed > 0
    /\ ~HadInfo
    /\ raised = KeyError
    /\ testcases_info = EmptyDict

====
